---- MODULE Spec2Model ----
(***************************************************************************)
(* Global API script propagation of tauri-utils (plugin.rs, mod build):    *)
(* define_global_api_script_path (publisher), save_global_api_scripts_paths*)
(* (aggregator) and read_global_api_scripts (reader), over a small file    *)
(* system with symlinks, an environment snapshot and the manifest file.    *)
(*                                                                         *)
(* Strings are sequences: an environment key is a sequence of characters,  *)
(* a path string is a sequence of component names and "/" separators, the  *)
(* text of a file is a sequence of tokens.  An Option is a sequence of     *)
(* length 0 (None) or 1 (Some).                                            *)
(***************************************************************************)
EXTENDS Integers, Sequences, FiniteSets, TLC

VARIABLES
  env,       \* the environment a dependent's build script inherits: <<[key, value]>>
  manifest,  \* manifest[out_dir]: Option of the text of out_dir/__global-api-script.js
  pubRun,    \* the last define_global_api_script_path run
  aggRun,    \* the last save_global_api_scripts_paths run
  rdRun      \* the last read_global_api_scripts run

vars == <<env, manifest, pubRun, aggRun, rdRun>>

\* ------------------------------------------------------------------ bounds
MaxEnv == 2

\* ------------------------------------------------------------- Option, str
None == <<>>

Some(x) == <<x>>

IsSome(o) == Len(o) = 1

StartsWith(s, p) == Len(p) <= Len(s) /\ SubSeq(s, 1, Len(p)) = p

EndsWith(s, p) == Len(p) <= Len(s) /\ SubSeq(s, Len(s) - Len(p) + 1, Len(s)) = p

\* -------------------------------------------------------------- constants
GLOBAL_API_SCRIPT_PATH_KEY ==
  <<"G","L","O","B","A","L","_","A","P","I","_","S","C","R","I","P","T","_","P","A","T","H">>

GLOBAL_API_SCRIPT_FILE_LIST_PATH == "__global-api-script.js"

DEP_ == <<"D","E","P","_">>

\* format!("DEP_TAURI_{GLOBAL_API_SCRIPT_PATH_KEY}")
DEP_TAURI_KEY == DEP_ \o <<"T","A","U","R","I","_">> \o GLOBAL_API_SCRIPT_PATH_KEY

\* ------------------------------------------------------------------ paths
\* A path string holds names and "/" separators; Path::components drops
\* the separators.  ".." is kept as a component (canonicalize resolves it).
Sep == "/"

RECURSIVE Names(_)
Names(s) ==
  IF s = <<>> THEN <<>>
  ELSE IF Head(s) = Sep THEN Names(Tail(s))
  ELSE <<Head(s)>> \o Names(Tail(s))

is_absolute(s) == s # <<>> /\ Head(s) = Sep

is_relative(s) == ~is_absolute(s)

\* the string of an absolute path given by its components
RECURSIVE AbsString(_)
AbsString(c) == IF c = <<>> THEN <<>> ELSE <<Sep, Head(c)>> \o AbsString(Tail(c))

\* Path::display of a relative path given by its components
RECURSIVE display(_)
display(c) ==
  IF c = <<>> THEN <<>>
  ELSE IF Len(c) = 1 THEN c
  ELSE <<Head(c), Sep>> \o display(Tail(c))

\* Path::join: an absolute right-hand side replaces the left one
join(base, p) == IF is_absolute(p) THEN p ELSE base \o <<Sep>> \o p

\* Path::strip_prefix compares whole components
strip_prefix(c, b) == IF StartsWith(c, b) THEN Some(SubSeq(c, Len(b) + 1, Len(c))) ELSE None

\* ------------------------------------------------------------ file system
\* Script text is one raw token; JSON text is a sequence of JSON tokens.
Tok(t, s) == [t |-> t, s |-> s]

Raw(x) == <<Tok("raw", <<x>>)>>

Dirs == { <<>>, <<"base">>, <<"base","ext">>, <<"base","out">>,
          <<"other">>, <<"other","ext">> }

ScriptFiles ==
  ( <<"base","ext","a.js">>  :> Raw("A") )  @@
  ( <<"base","ext","b.js">>  :> Raw("B") )  @@
  ( <<"other","ext","a.js">> :> Raw("A2") ) @@
  ( <<"other","c.js">>       :> Raw("C") )

\* /base/lnk -> /other leaves the base, /other/in -> /base/ext enters it
Symlinks ==
  ( <<"base","lnk">> :> <<"other">> ) @@
  ( <<"other","in">> :> <<"base","ext">> )

OutDirs == { <<"base","out">> }

ManifestPath(out_dir) == out_dir \o <<GLOBAL_API_SCRIPT_FILE_LIST_PATH>>

\* the file at a canonical path: None when there is no regular file there
FileAt(m, c) ==
  IF c \in DOMAIN ScriptFiles THEN Some(ScriptFiles[c])
  ELSE IF \E d \in OutDirs : c = ManifestPath(d) /\ d \in Dirs
       THEN m[CHOOSE d \in OutDirs : c = ManifestPath(d)]
  ELSE None

Exists(m, c) == c \in Dirs \/ IsSome(FileAt(m, c))

\* Resolve the components left to right from the canonical directory `at`:
\* ".." pops, a symlink is replaced by its target, every intermediate
\* component has to be a directory.  None when the path does not exist.
RECURSIVE Walk(_, _, _)
Walk(m, at, rest) ==
  IF rest = <<>> THEN (IF Exists(m, at) THEN Some(at) ELSE None)
  ELSE IF at \notin Dirs THEN None
  ELSE IF Head(rest) = ".."
       THEN Walk(m, IF at = <<>> THEN at ELSE SubSeq(at, 1, Len(at) - 1), Tail(rest))
  ELSE LET nxt == at \o <<Head(rest)>> IN
       IF nxt \in DOMAIN Symlinks THEN Walk(m, Symlinks[nxt], Tail(rest))
       ELSE Walk(m, nxt, Tail(rest))

\* Path::canonicalize of an absolute path string
canonicalize(m, s) == IF s = <<>> THEN None ELSE Walk(m, <<>>, Names(s))

\* crate::config::parse::clean_canonical_path: on a POSIX path nothing to clean
clean_canonical_path(c) == c

\* -------------------------------------------------------------- publisher
\* the value of a process: it returns (ok) or aborts the build step (panic)
Ok(out) == [status |-> "ok", msg |-> "", out |-> out]

Panic(msg) == [status |-> "panic", msg |-> msg, out |-> <<>>]

\* println!("cargo:{GLOBAL_API_SCRIPT_PATH_KEY}={}", relative_path.display())
Directive(value) == [key |-> GLOBAL_API_SCRIPT_PATH_KEY, value |-> value]

\* fault: a path outside the base is passed on whole instead of rejected
RelativePathOrWhole(cleaned_canon_path, bazel_output_base) ==
  IF is_absolute(bazel_output_base)
     /\ IsSome(strip_prefix(cleaned_canon_path, Names(bazel_output_base)))
  THEN strip_prefix(cleaned_canon_path, Names(bazel_output_base))
  ELSE Some(cleaned_canon_path)

\* cleaned_canon_path.strip_prefix(&bazel_output_base): an absolute path never
\* has a relative prefix
RelativePath(cleaned_canon_path, bazel_output_base) ==
  IF is_absolute(bazel_output_base)
  THEN strip_prefix(cleaned_canon_path, Names(bazel_output_base))
  ELSE None

\* path: the argument; base, mdir: Option of the values of BAZEL_OUTPUT_BASE
\* and CARGO_MANIFEST_DIR.  out is the sequence of lines printed.
define_global_api_script_path(m, path, base, mdir) ==
  IF ~IsSome(base) THEN Panic("BAZEL_OUTPUT_BASE not set")
  ELSE IF is_relative(path) /\ ~IsSome(mdir) THEN Panic("CARGO_MANIFEST_DIR not set")
  ELSE
    LET bazel_output_base == base[1]
        resolved_path == IF is_relative(path) THEN join(mdir[1], path) ELSE path
        canon_path == canonicalize(m, resolved_path)
    IN IF ~IsSome(canon_path)
       THEN Panic("failed to canonicalize global API script path")
       ELSE LET cleaned_canon_path == clean_canonical_path(canon_path[1])
                relative_path == RelativePath(cleaned_canon_path, bazel_output_base)
            IN IF ~IsSome(relative_path)
               THEN Panic("failed to get relative path of global API script")
               ELSE Ok(<<Directive(display(relative_path[1]))>>)

\* ------------------------------------------------------------- aggregator
\* else-if chain of the loop body: which keys are pushed
IsDepScriptKey(key) == StartsWith(key, DEP_) /\ EndsWith(key, GLOBAL_API_SCRIPT_PATH_KEY)

\* fault: a caller-supplied override is kept when the framework key shows up
RECURSIVE OverrideSlotCallerFirst(_, _)
OverrideSlotCallerFirst(snapshot, tauri_global_scripts) ==
  IF snapshot = <<>> THEN tauri_global_scripts
  ELSE OverrideSlotCallerFirst(Tail(snapshot),
                               IF Head(snapshot).key = DEP_TAURI_KEY
                                  /\ ~IsSome(tauri_global_scripts)
                               THEN Some(Head(snapshot).value)
                               ELSE tauri_global_scripts)

\* the override slot after the loop: the last framework-owned entry wins
RECURSIVE OverrideSlot(_, _)
OverrideSlot(snapshot, tauri_global_scripts) ==
  IF snapshot = <<>> THEN tauri_global_scripts
  ELSE OverrideSlot(Tail(snapshot),
                    IF Head(snapshot).key = DEP_TAURI_KEY
                    THEN Some(Head(snapshot).value)
                    ELSE tauri_global_scripts)

\* the vector after the loop: values pushed in iteration order
RECURSIVE Pushed(_)
Pushed(snapshot) ==
  IF snapshot = <<>> THEN <<>>
  ELSE IF Head(snapshot).key = DEP_TAURI_KEY THEN Pushed(Tail(snapshot))
  ELSE IF IsDepScriptKey(Head(snapshot).key)
       THEN <<Head(snapshot).value>> \o Pushed(Tail(snapshot))
  ELSE Pushed(Tail(snapshot))

\* scripts.insert(0, tauri_global_scripts)
CollectScripts(snapshot, override) ==
  LET slot == OverrideSlot(snapshot, override)
  IN IF IsSome(slot) THEN <<slot[1]>> \o Pushed(snapshot) ELSE Pushed(snapshot)

\* a name that is not valid UTF-8
BadUtf8 == "\\xFF"

IsUtf8(s) == \A i \in 1..Len(s) : s[i] # BadUtf8

\* serde_json::to_string(&Vec<PathBuf>): None when a path is not UTF-8
RECURSIVE JsonItems(_)
JsonItems(scripts) ==
  IF scripts = <<>> THEN <<>>
  ELSE IF Len(scripts) = 1 THEN <<Tok("str", scripts[1])>>
  ELSE <<Tok("str", Head(scripts)), Tok(",", <<>>)>> \o JsonItems(Tail(scripts))

to_string(scripts) ==
  IF \E i \in 1..Len(scripts) : ~IsUtf8(scripts[i]) THEN None
  ELSE Some(<<Tok("[", <<>>)>> \o JsonItems(scripts) \o <<Tok("]", <<>>)>>)

\* fault: the file is opened for append, the old entries stay in front
fs_write_append(m, out_dir, text, io, n) ==
  LET old == IF IsSome(m[out_dir]) THEN m[out_dir][1] ELSE <<>>
  IN IF out_dir \notin Dirs \/ io = "create_err" THEN [m |-> m, ok |-> FALSE]
     ELSE IF io = "write_err"
          THEN [m |-> [m EXCEPT ![out_dir] = Some(old \o SubSeq(text, 1, n))], ok |-> FALSE]
     ELSE [m |-> [m EXCEPT ![out_dir] = Some(old \o text)], ok |-> TRUE]

\* fs::write is File::create (truncates) followed by write_all.  io says how
\* far it gets: "create_err" leaves the file as it was, "write_err" leaves
\* the first n tokens of the text, "ok" the whole text.
fs_write(m, out_dir, text, io, n) ==
  IF out_dir \notin Dirs \/ io = "create_err" THEN [m |-> m, ok |-> FALSE]
  ELSE IF io = "write_err"
       THEN [m |-> [m EXCEPT ![out_dir] = Some(SubSeq(text, 1, n))], ok |-> FALSE]
  ELSE [m |-> [m EXCEPT ![out_dir] = Some(text)], ok |-> TRUE]

\* out is the vector built; m the manifest files afterwards
save_global_api_scripts_paths(m, out_dir, override, snapshot, io, n) ==
  LET scripts == CollectScripts(snapshot, override)
      text == to_string(scripts)
  IN IF ~IsSome(text)
     THEN [m |-> m, res |-> Panic("failed to serialize global API script paths")]
     ELSE LET w == fs_write(m, out_dir, text[1], io, n)
          IN [m |-> w.m,
              res |-> IF w.ok THEN Ok(scripts)
                      ELSE Panic("failed to write global API script")]

\* ----------------------------------------------------------------- reader
\* fs::read_to_string fails on text that is not UTF-8
TextIsUtf8(text) == \A i \in 1..Len(text) : IsUtf8(text[i].s)

RECURSIVE SkipWs(_)
SkipWs(text) ==
  IF text = <<>> THEN <<>>
  ELSE IF Head(text).t = "ws" THEN SkipWs(Tail(text))
  ELSE <<Head(text)>> \o SkipWs(Tail(text))

\* serde_json::from_str::<Vec<PathBuf>>: a JSON array of strings and nothing
\* else; None is the decoding error
from_str(text) ==
  LET u == SkipWs(text)
      n == Len(u)
  IN IF n < 2 THEN None
     ELSE IF u[1].t # "[" \/ u[n].t # "]" THEN None
     ELSE IF n = 2 THEN Some(<<>>)
     ELSE IF (n - 2) % 2 = 0 THEN None
     ELSE IF \E i \in 2..(n - 1) : u[i].t # (IF i % 2 = 0 THEN "str" ELSE ",") THEN None
     ELSE Some([i \in 1..((n - 1) \div 2) |-> u[2 * i].s])

\* the file a process with working directory cwd opens for path string p
OpenPath(m, cwd, p) ==
  IF p = <<>> THEN None
  ELSE Walk(m, IF is_absolute(p) THEN <<>> ELSE cwd, Names(p))

\* fs::read_to_string(&p): None is the I/O error
read_to_string(m, cwd, p) ==
  LET c == OpenPath(m, cwd, p)
  IN IF ~IsSome(c) THEN None
     ELSE LET f == FileAt(m, c[1])
          IN IF IsSome(f) /\ TextIsUtf8(f[1]) THEN f ELSE None

\* fault: an entry that cannot be read is skipped (filter_map over the reads)
RECURSIVE ReadEachSkipping(_, _, _, _, _)
ReadEachSkipping(m, cwd, paths, texts, opened) ==
  IF paths = <<>> THEN [ok |-> TRUE, texts |-> texts, opened |-> opened]
  ELSE LET r == read_to_string(m, cwd, Head(paths))
       IN ReadEachSkipping(m, cwd, Tail(paths),
                           IF IsSome(r) THEN Append(texts, r[1]) ELSE texts,
                           Append(opened, Head(paths)))

\* .into_iter().map(read or panic).collect(): entries are read in order and
\* the first failure aborts.  opened lists the path strings handed to
\* read_to_string so far.
RECURSIVE ReadEach(_, _, _, _, _)
ReadEach(m, cwd, paths, texts, opened) ==
  IF paths = <<>> THEN [ok |-> TRUE, texts |-> texts, opened |-> opened]
  ELSE LET r == read_to_string(m, cwd, Head(paths))
       IN IF ~IsSome(r)
          THEN [ok |-> FALSE, texts |-> texts, opened |-> Append(opened, Head(paths))]
          ELSE ReadEach(m, cwd, Tail(paths), Append(texts, r[1]),
                        Append(opened, Head(paths)))

\* status "none" is the None result, "some" is Some(out)
ReadResult(status, msg, out, opened) ==
  [status |-> status, msg |-> msg, out |-> out, opened |-> opened]

\* fault: a manifest that does not decode counts as an empty one
DecodeManifestOrEmpty(global_scripts_str) ==
  IF IsSome(from_str(global_scripts_str)) THEN from_str(global_scripts_str) ELSE Some(<<>>)

\* serde_json::from_str(..).expect(..): None aborts the read
DecodeManifest(global_scripts_str) == from_str(global_scripts_str)

\* the part of read_global_api_scripts after the existence test
LoadScripts(m, out_dir, cwd) ==
  LET global_scripts_path == AbsString(ManifestPath(out_dir))
      global_scripts_str == read_to_string(m, cwd, global_scripts_path)
  IN IF ~IsSome(global_scripts_str)
     THEN ReadResult("panic", "failed to read plugin global API script paths",
                     <<>>, <<global_scripts_path>>)
     ELSE LET global_scripts == DecodeManifest(global_scripts_str[1])
          IN IF ~IsSome(global_scripts)
             THEN ReadResult("panic", "failed to parse plugin global API script paths",
                             <<>>, <<global_scripts_path>>)
             ELSE LET r == ReadEach(m, cwd, global_scripts[1], <<>>,
                                    <<global_scripts_path>>)
                  IN IF r.ok THEN ReadResult("some", "", r.texts, r.opened)
                     ELSE ReadResult("panic", "failed to read plugin global API script",
                                     <<>>, r.opened)

\* fault: the existence test is left out
read_without_exists_test(m, out_dir, cwd) == LoadScripts(m, out_dir, cwd)

read_global_api_scripts(m, out_dir, cwd) ==
  IF ~IsSome(FileAt(m, ManifestPath(out_dir)))
  THEN ReadResult("none", "", <<>>, <<>>)
  ELSE LoadScripts(m, out_dir, cwd)

\* ----------------------------------------------------------------- inputs
Str(names) == display(names)

A_JS == Str(<<"ext","a.js">>)

B_JS == Str(<<"ext","b.js">>)

BAD_JS == <<BadUtf8>>

FOO_ == <<"F","O","O","_">>

BAR_ == <<"B","A","R","_">>

DEP_FOO_KEY == DEP_ \o FOO_ \o GLOBAL_API_SCRIPT_PATH_KEY

DEP_BAR_KEY == DEP_ \o BAR_ \o GLOBAL_API_SCRIPT_PATH_KEY

\* the suffix without the "_" in front of it
DEP_FOO_XKEY == DEP_ \o FOO_ \o <<"X">> \o GLOBAL_API_SCRIPT_PATH_KEY

\* the suffix without the DEP_ in front
FOO_KEY == FOO_ \o GLOBAL_API_SCRIPT_PATH_KEY

DEP_FOO_VERSION == DEP_ \o FOO_ \o <<"V","E","R","S","I","O","N">>

Entry(k, v) == [key |-> k, value |-> v]

EnvEntries ==
  { Entry(DEP_TAURI_KEY, A_JS), Entry(DEP_TAURI_KEY, B_JS),
    Entry(DEP_FOO_KEY, A_JS), Entry(DEP_FOO_KEY, B_JS), Entry(DEP_FOO_KEY, BAD_JS),
    Entry(DEP_BAR_KEY, A_JS), Entry(DEP_BAR_KEY, B_JS),
    Entry(DEP_FOO_XKEY, B_JS), Entry(FOO_KEY, B_JS), Entry(DEP_FOO_VERSION, B_JS) }

\* an environment holds one value per key
Snapshots ==
  { s \in UNION { [1..n -> EnvEntries] : n \in 0..MaxEnv } :
      \A i, j \in 1..Len(s) : i # j => s[i].key # s[j].key }

Overrides == { None, Some(A_JS), Some(AbsString(<<"other","c.js">>)) }

TheOutDir == <<"base","out">>

Cwds == { <<"base">>, <<"other">> }

IoOutcomes == { "ok", "create_err", "write_err" }

\* what another program may leave in the manifest file
ForeignTexts ==
  { <<>>,
    <<Tok("{", <<>>), Tok("}", <<>>)>>,
    <<Tok("[", <<>>), Tok("num", <<"1">>), Tok("]", <<>>)>>,
    <<Tok("[", <<>>), Tok("str", A_JS), Tok(",", <<>>), Tok("]", <<>>)>>,
    <<Tok("raw", <<BadUtf8>>)>>,
    <<Tok("ws", <<>>), Tok("[", <<>>), Tok("str", B_JS), Tok(",", <<>>),
      Tok("ws", <<>>), Tok("str", A_JS), Tok("]", <<>>), Tok("ws", <<>>)>> }

PathInputs ==
  { AbsString(<<"base","ext","a.js">>),
    AbsString(<<"base","ext","..","ext","b.js">>),
    AbsString(<<"base","ext","none.js">>),
    AbsString(<<"base","ext">>),
    AbsString(<<"base","lnk","c.js">>),
    AbsString(<<"other","in","a.js">>),
    AbsString(<<"other","c.js">>),
    Str(<<"a.js">>),
    Str(<<"ext","a.js">>) }

BaseInputs == { None, Some(AbsString(<<"base">>)), Some(AbsString(<<"other">>)),
                Some(AbsString(<<"other","in">>)) }

MdirInputs == { None, Some(AbsString(<<"base","ext">>)), Some(AbsString(<<"other">>)) }

\* ------------------------------------------------------------ run records
IdlePub == [op |-> "idle", path |-> <<>>, base |-> None, mdir |-> None, res |-> Ok(<<>>)]

\* before: the manifest file as the run found it
IdleAgg == [op |-> "idle", out_dir |-> <<>>, override |-> None, before |-> None,
            res |-> Ok(<<>>)]

IdleRd == [op |-> "idle", out_dir |-> <<>>, cwd |-> <<>>,
           res |-> ReadResult("none", "", <<>>, <<>>)]

NoManifests == [d \in OutDirs |-> None]

\* ---------------------------------------------------------------- actions
\* a dependent's build script calls save_global_api_scripts_paths
Aggregate(out_dir, override, io, n) ==
  LET r == save_global_api_scripts_paths(manifest, out_dir, override, env, io, n)
  IN /\ manifest' = r.m
     /\ aggRun' = [op |-> "aggregate", out_dir |-> out_dir, override |-> override,
                   before |-> manifest[out_dir], res |-> r.res]
     /\ rdRun' = IdleRd
     /\ UNCHANGED <<env, pubRun>>

\* a failed write_all got nothing out, or everything but the last token
PartialWrites(text) == { 0, Len(text) - 1 }

AggregateAny ==
  \E out_dir \in OutDirs, override \in Overrides, io \in IoOutcomes :
    LET text == to_string(CollectScripts(env, override))
    IN \E n \in (IF io = "write_err" /\ IsSome(text) THEN PartialWrites(text[1]) ELSE {0}) :
         Aggregate(out_dir, override, io, n)

\* a later phase of the dependent calls read_global_api_scripts
Read(out_dir, cwd) ==
  /\ rdRun' = [op |-> "read", out_dir |-> out_dir, cwd |-> cwd,
               res |-> read_global_api_scripts(manifest, out_dir, cwd)]
  /\ UNCHANGED <<env, manifest, pubRun, aggRun>>

ReadAny == \E out_dir \in OutDirs, cwd \in Cwds : Read(out_dir, cwd)

\* another program writes the manifest file
Tamper(text) ==
  /\ manifest' = [manifest EXCEPT ![TheOutDir] = Some(text)]
  /\ aggRun' = IdleAgg
  /\ rdRun' = IdleRd
  /\ UNCHANGED <<env, pubRun>>

TamperAny == \E text \in ForeignTexts : Tamper(text)

\* the output directory is cleaned
Clean ==
  /\ manifest # NoManifests
  /\ manifest' = NoManifests
  /\ aggRun' = IdleAgg
  /\ rdRun' = IdleRd
  /\ UNCHANGED <<env, pubRun>>

Init ==
  /\ env \in Snapshots
  /\ manifest = NoManifests
  /\ pubRun = IdlePub
  /\ aggRun = IdleAgg
  /\ rdRun = IdleRd

Next == AggregateAny \/ ReadAny \/ TamperAny \/ Clean

Spec == Init /\ [][Next]_vars

\* --------------------------------------------------------------- pipeline
\* publisher -> cargo -> aggregator -> reader, one provider and one dependent
TAURI_ == <<"T","A","U","R","I","_">>

\* a provider's build script calls define_global_api_script_path; the
\* dependent is rebuilt from a clean output directory afterwards
Publish(path, base, mdir) ==
  /\ pubRun' = [op |-> "publish", path |-> path, base |-> base, mdir |-> mdir,
                res |-> define_global_api_script_path(manifest, path, base, mdir)]
  /\ env' = <<>>
  /\ manifest' = NoManifests
  /\ aggRun' = IdleAgg
  /\ rdRun' = IdleRd

PublishAny ==
  \E path \in PathInputs, base \in BaseInputs, mdir \in MdirInputs : Publish(path, base, mdir)

\* entries of the dependent's environment that are not directives
OtherEntries == { Entry(DEP_FOO_VERSION, B_JS), Entry(FOO_KEY, B_JS) }

\* cargo hands the directive `cargo:KEY=value` of a provider whose `links`
\* name is L to the dependents as DEP_<L>_<KEY>=value
CargoKey(links_, key) == DEP_ \o links_ \o key

Cargo(links_, others) ==
  /\ pubRun.op = "publish"
  /\ pubRun.res.status = "ok"
  /\ env = <<>>
  /\ \E at \in 1..(Len(others) + 1) :
       env' = SubSeq(others, 1, at - 1)
              \o << Entry(CargoKey(links_, pubRun.res.out[1].key), pubRun.res.out[1].value) >>
              \o SubSeq(others, at, Len(others))
  /\ UNCHANGED <<manifest, pubRun, aggRun, rdRun>>

CargoAny ==
  \E links_ \in { FOO_, TAURI_ } :
    \E others \in { <<>> } \cup { <<e>> : e \in OtherEntries } : Cargo(links_, others)

PipeAggregate == env # <<>> /\ AggregateAny

PipeRead == aggRun.op = "aggregate" /\ ReadAny

PipeInit ==
  /\ env = <<>>
  /\ manifest = NoManifests
  /\ pubRun = IdlePub
  /\ aggRun = IdleAgg
  /\ rdRun = IdleRd

PipeNext == PublishAny \/ CargoAny \/ PipeAggregate \/ PipeRead

PipeSpec == PipeInit /\ [][PipeNext]_vars

\* ------------------------------------------------- vocabulary of the claims
\* <per-dependency prefix>_<fixed suffix>: DEP_<NAME>_GLOBAL_API_SCRIPT_PATH
HasDirectiveForm(key) ==
  /\ StartsWith(key, DEP_)
  /\ EndsWith(key, <<"_">> \o GLOBAL_API_SCRIPT_PATH_KEY)
  /\ Len(key) > Len(DEP_) + 1 + Len(GLOBAL_API_SCRIPT_PATH_KEY)

\* the values of the entries whose key is in K, in snapshot order
RECURSIVE ValuesOf(_, _)
ValuesOf(snapshot, K) ==
  IF snapshot = <<>> THEN <<>>
  ELSE (IF Head(snapshot).key \in K THEN <<Head(snapshot).value>> ELSE <<>>)
       \o ValuesOf(Tail(snapshot), K)

EnvKeys == { env[i].key : i \in 1..Len(env) }

IsFrameworkKey(key) == key = DEP_TAURI_KEY

FrameworkValues == ValuesOf(env, { k \in EnvKeys : IsFrameworkKey(k) })

\* the values of the entries of the form <prefix>_<suffix>, framework key apart
OrdinaryDirectiveValues ==
  ValuesOf(env, { k \in EnvKeys : HasDirectiveForm(k) /\ ~IsFrameworkKey(k) })

\* the values of the entries the loop pushes
PushedValues ==
  ValuesOf(env, { k \in EnvKeys : IsDepScriptKey(k) /\ ~IsFrameworkKey(k) })

\* the override in force: the framework-owned entry, else the caller's argument
EffectiveOverride ==
  IF FrameworkValues # <<>> THEN Some(FrameworkValues[1]) ELSE aggRun.override

RECURSIVE StrList(_)
StrList(text) ==
  IF text = <<>> THEN <<>>
  ELSE (IF Head(text).t = "str" THEN <<Head(text).s>> ELSE <<>>) \o StrList(Tail(text))

RECURSIVE DropWs(_)
DropWs(text) ==
  IF text = <<>> THEN <<>>
  ELSE (IF Head(text).t = "ws" THEN <<>> ELSE <<Head(text)>>) \o DropWs(Tail(text))

RECURSIVE Commas(_)
Commas(l) ==
  IF Len(l) <= 1 THEN (IF l = <<>> THEN <<>> ELSE <<Tok("str", l[1])>>)
  ELSE <<Tok("str", l[1]), Tok(",", <<>>)>> \o Commas(Tail(l))

\* the text is, up to white space, the JSON array of its own string literals
IsArrayOfStrings(text) ==
  /\ TextIsUtf8(text)
  /\ DropWs(text) = <<Tok("[", <<>>)>> \o Commas(StrList(text)) \o <<Tok("]", <<>>)>>

AggDone == aggRun.op = "aggregate"

AggOk == AggDone /\ aggRun.res.status = "ok"

RdDone == rdRun.op = "read"

\* the manifest file of the last aggregator run / of the last read
AggManifest == manifest[aggRun.out_dir]

RdManifest == manifest[rdRun.out_dir]

RdEntries == StrList(RdManifest[1])

\* ------------------------------------------------------------------ claims
Elems(l) == { l[i] : i \in 1..Len(l) }

\* C3: whenever an override is in force (caller argument or framework-owned
\* key), the manifest written has it as element 0 and the elements after it
\* are exactly the values, in snapshot order, of the entries whose key has
\* the form <per-dependency prefix>_<fixed suffix>, framework key apart.
C3_OverrideThenDirectives ==
  (AggOk /\ IsSome(EffectiveOverride)) =>
     /\ IsSome(AggManifest)
     /\ IsArrayOfStrings(AggManifest[1])
     /\ StrList(AggManifest[1]) = <<EffectiveOverride[1]>> \o OrdinaryDirectiveValues

\* C8: after a successful aggregator run the manifest file is the encoding of
\* the list built from this run's snapshot and override, whatever the file
\* held before.
C8_ManifestOverwritten ==
  AggOk =>
     /\ IsSome(AggManifest)
     /\ IsArrayOfStrings(AggManifest[1])
     /\ DropWs(AggManifest[1]) = AggManifest[1]
     /\ StrList(AggManifest[1]) =
          (IF IsSome(EffectiveOverride) THEN <<EffectiveOverride[1]>> ELSE <<>>)
          \o PushedValues

\* C8 witness: a successful run over an older manifest with other entries
C8_Witness ==
  /\ AggOk
  /\ IsSome(aggRun.before)
  /\ IsArrayOfStrings(aggRun.before[1])
  /\ StrList(aggRun.before[1]) # <<>>
  /\ Elems(StrList(aggRun.before[1])) \cap Elems(StrList(AggManifest[1])) = {}
  /\ StrList(AggManifest[1]) # <<>>

\* C9: after an aggregator run that failed, the manifest file is absent or
\* identical to the one that was there before the run.
C9_NoPartialManifest ==
  (AggDone /\ aggRun.res.status = "panic") =>
     (~IsSome(AggManifest) \/ AggManifest = aggRun.before)

C5_AbsentManifestIsNone ==
  (RdDone /\ ~IsSome(RdManifest)) =>
     /\ rdRun.res.status = "none"
     /\ rdRun.res.opened = <<>>

\* C5 witness: a read after an aggregator run that could not create the file
C5_Witness ==
  /\ RdDone
  /\ ~IsSome(RdManifest)
  /\ AggDone /\ aggRun.res.status = "panic"

ManifestStageMsgs ==
  { "failed to read plugin global API script paths",
    "failed to parse plugin global API script paths" }

\* C6: a manifest file that is there but is not an array of path strings makes
\* the read fail while decoding the manifest: the result is neither None nor
\* a sequence, and no listed file has been opened.
C6_CorruptManifestFails ==
  (RdDone /\ IsSome(RdManifest) /\ ~IsArrayOfStrings(RdManifest[1])) =>
     /\ rdRun.res.status = "panic"
     /\ rdRun.res.msg \in ManifestStageMsgs
     /\ rdRun.res.out = <<>>
     /\ Len(rdRun.res.opened) = 1

\* C6 witness: the read rejects an array that holds a number
C6_Witness ==
  /\ RdDone
  /\ IsSome(RdManifest)
  /\ \E i \in 1..Len(RdManifest[1]) : RdManifest[1][i].t = "num"
  /\ rdRun.res.msg = "failed to parse plugin global API script paths"

\* the text the reading process gets for entry r: None when it cannot read it
EntryText(r) == read_to_string(manifest, rdRun.cwd, r)

\* C7: a read of a manifest of n entries returns n texts, the i-th being the
\* text of the file the i-th entry names, and the entries are the list the
\* aggregator built; when an entry cannot be read the whole read fails.
C7_OrderPreserved ==
  (RdDone /\ IsSome(RdManifest) /\ IsArrayOfStrings(RdManifest[1])) =>
     /\ AggOk => RdEntries = aggRun.res.out
     /\ IF \A i \in 1..Len(RdEntries) : IsSome(EntryText(RdEntries[i]))
        THEN /\ rdRun.res.status = "some"
             /\ Len(rdRun.res.out) = Len(RdEntries)
             /\ \A i \in 1..Len(RdEntries) : rdRun.res.out[i] = EntryText(RdEntries[i])[1]
        ELSE /\ rdRun.res.status = "panic"
             /\ rdRun.res.out = <<>>

\* C7 witness: two entries with different texts, written by the aggregator
C7_Witness ==
  /\ RdDone
  /\ AggOk
  /\ rdRun.res.status = "some"
  /\ Len(rdRun.res.out) >= 2
  /\ rdRun.res.out[1] # rdRun.res.out[2]

\* ------------------------------------------------------ claims, pipeline
PubOk == pubRun.op = "publish" /\ pubRun.res.status = "ok"

\* the path the publisher canonicalizes
PubResolved ==
  IF is_relative(pubRun.path) THEN join(pubRun.mdir[1], pubRun.path) ELSE pubRun.path

PubCanon == canonicalize(manifest, PubResolved)

\* the environment holds one directive, the one the publisher emitted
OnlyPublishedDirective ==
  /\ PubOk
  /\ FrameworkValues \o OrdinaryDirectiveValues = <<pubRun.res.out[1].value>>

\* C1: publish the file at absolute path P under the output base, aggregate
\* with no override, read: the result is Some of one text, the content of P.
C1_RoundTrip ==
  ( /\ OnlyPublishedDirective
    /\ is_absolute(pubRun.path)
    /\ IsSome(FileAt(manifest, PubCanon[1]))
    /\ AggOk /\ aggRun.override = None
    /\ RdDone /\ rdRun.out_dir = aggRun.out_dir ) =>
     /\ rdRun.res.status = "some"
     /\ rdRun.res.out = << FileAt(manifest, PubCanon[1])[1] >>

\* C2: the reader opens, for a manifest entry r, the file at OutputBase joined
\* with r, whatever its working directory is.
C2_ResolvedAgainstBase ==
  ( /\ OnlyPublishedDirective
    /\ AggOk /\ aggRun.override = None
    /\ RdDone /\ rdRun.out_dir = aggRun.out_dir ) =>
     \A i \in 1..Len(RdEntries) :
        OpenPath(manifest, rdRun.cwd, RdEntries[i])
          = canonicalize(manifest, join(pubRun.base[1], RdEntries[i]))

\* the canonical form of the published path is not at or below OutputBase
CanonOutsideBase ==
  /\ pubRun.op = "publish"
  /\ IsSome(pubRun.base)
  /\ is_relative(pubRun.path) => IsSome(pubRun.mdir)
  /\ IsSome(PubCanon)
  /\ ~StartsWith(PubCanon[1], Names(pubRun.base[1]))

\* C4: a path whose canonical form is not at or below OutputBase makes the
\* publisher fail, and no directive is printed.
C4_OutsideBaseRejected ==
  CanonOutsideBase =>
     /\ pubRun.res.status = "panic"
     /\ pubRun.res.out = <<>>

\* C4 witness: the path as written is below the base, its canonical form
\* (through a symlink) is not
C4_Witness ==
  /\ CanonOutsideBase
  /\ StartsWith(Names(PubResolved), Names(pubRun.base[1]))
  /\ pubRun.res.status = "panic"

====
